---- MODULE Spec2Model ----
(***************************************************************************)
(* The lxplug-updater panel applet (plugins/updater/updater.c) as a state  *)
(* machine: the plugin state (UpdaterPlugin), the GLib sources the applet  *)
(* arms (idle, 60 s network poll, periodic timer), the PackageKit check    *)
(* runs in flight, and the handlers the panel, GLib and PackageKit call.   *)
(* Every handler is one action; the results of the shell probes            *)
(* (net_available, clock_synced, raspi-config, ps|grep piwiz) and of the   *)
(* backend are inputs of the action that evaluates them.  The installer    *)
(* process the applet launches (src/installer.c) is a second state machine *)
(* over its own variables: its dialog, its backend operations, its timer.  *)
(***************************************************************************)
EXTENDS Integers, Sequences, FiniteSets, TLC

VARIABLES
    n_updates,      \* up->n_updates
    ids,            \* up->ids: NULL or a string vector of package ids
    interval,       \* up->interval, hours
    timer,          \* up->timer: GLib source id of the periodic timer, 0 if none
    settings,       \* the "Interval" entry of up->settings
    icon,           \* up->plugin is shown and sensitive
    menu,           \* the popup menu built by show_menu is up
    update_dlg,     \* up->update_dlg is non-NULL (dialog on screen)
    sources,        \* GLib main-loop sources attached by the applet
    nextId,         \* next GLib source id
    runs,           \* PackageKit operations in flight, by pipeline phase
    notifications,  \* calls of lxpanel_notify so far
    spawned,        \* calls of g_spawn_async so far
    ticks,          \* steps of time taken so far
    last,           \* the handler that ran last, with the inputs it read
    up,             \* the UpdaterPlugin allocation: "live", "freed" or "crashed"
    \* the installer process (src/installer.c)
    pending,        \* callbacks the installer's main loop has yet to run
    calls,          \* backend operations invoked so far, by operation
    msg_dlg,        \* msg_dlg is non-NULL (dialog on screen)
    msg_msg,        \* text of the label msg_msg
    msg_btn,        \* the OK button msg_btn is visible
    msg_pb,         \* the progress bar msg_pb: visibility, fraction, pulses
    close_end_in,   \* seconds until close_end fires, -1 if not armed
    quits,          \* calls of gtk_main_quit so far
    events,         \* progress events delivered so far
    ilast           \* the installer callback that ran last, with its inputs

installerVars == <<pending, calls, msg_dlg, msg_msg, msg_btn, msg_pb,
                   close_end_in, quits, events, ilast>>

pluginVars == <<n_updates, ids, interval, timer, settings, icon, menu, update_dlg,
                sources, nextId, runs, notifications, spawned, ticks, last, up>>

vars == <<pluginVars, installerVars>>

-----------------------------------------------------------------------------
(* Bounds of the model *)

MaxInterval == 1
MaxPkgs == 2
MaxChecks == 2
MaxInstalls == 2
MaxSourceId == 3
MaxTicks == 2
PartialStep == 1800
MaxEvents == 2

(* Program constants *)

SECS_PER_HOUR == 3600
DefaultInterval == 24
PollSecs == 60
CloseSecs == 2

-----------------------------------------------------------------------------
(* Strings are sequences of characters, so that strstr and strncmp are     *)
(* computed, not assumed.                                                  *)

AMD64 == <<"a", "m", "d", "6", "4">>
ARMHF == <<"a", "r", "m", "h", "f">>
KFREEBSD_AMD64 == <<"k", "f", "r", "e", "e", "b", "s", "d", "-", "a", "m", "d", "6", "4">>

\* strstr (haystack, needle) != NULL
Strstr(haystack, needle) ==
    \E i \in 0 .. (Len(haystack) - Len(needle)) :
        SubSeq(haystack, i + 1, i + Len(needle)) = needle

\* The packages the backend may report (PkPackage: name and architecture).
Packages ==
    { [name |-> "foo", arch |-> AMD64],
      [name |-> "bar", arch |-> ARMHF],
      [name |-> "baz", arch |-> KFREEBSD_AMD64] }

\* The package lists a get-updates query may return: no package twice.
PackageLists ==
    { s \in UNION { [1 .. n -> Packages] : n \in 0 .. MaxPkgs } :
        \A i, j \in 1 .. Len(s) : i # j => s[i] # s[j] }

\* A gchar ** is NULL or a vector of strings.
NULL == [null |-> TRUE, v |-> << >>]
Strv(s) == [null |-> FALSE, v |-> s]

-----------------------------------------------------------------------------
(* The architecture filter *)

filter_fn_strcmp(package) == package.arch # AMD64

\* filter_fn: FALSE (drop) when the architecture contains "amd64"
filter_fn(package) == ~ Strstr(package.arch, AMD64)

\* pk_package_sack_filter: the packages the callback accepts, in order.
pk_package_sack_filter(sack) == SelectSeq(sack, filter_fn)

\* system ("raspi-config nonint is_pi"): exit status 0 means "is a Pi".
PlatformStatus == {0, 1, 127}

fsack(results, is_pi) ==
    IF is_pi # 0 THEN pk_package_sack_filter(results) ELSE results

-----------------------------------------------------------------------------
(* GLib sources *)

Source(id, fn, period) ==
    [id |-> id, fn |-> fn, period |-> period, remaining |-> period]

\* interval * SECS_PER_HOUR passed as the guint (32-bit unsigned) interval of
\* g_timeout_add_seconds: the product modulo 2^32, computed on 16-bit limbs.
Limb == 2 ^ 16

TimerSeconds(hours) ==
    LET lo == (hours % Limb) * SECS_PER_HOUR
        hi == (((hours \div Limb) * SECS_PER_HOUR) + (lo \div Limb)) % Limb
    IN  (hi * Limb) + (lo % Limb)

Ready(fn) == { s \in sources : s.fn = fn /\ s.remaining = 0 }

Rearm(s) == [s EXCEPT !.remaining = s.period]

RunCount == runs.refresh_cache + runs.get_updates

\* Bound of the model: a trigger is taken while the runs in flight and the
\* notifications emitted so far number less than MaxChecks.
CanStart == notifications + RunCount < MaxChecks

-----------------------------------------------------------------------------
(* Shell probes: system() returns the exit status, 0 meaning success. *)

ProbeStatus == {0, 1}

\* What system() can return: -1 when the command could not be run (no child
\* created), otherwise the wait status: 0, or 256 for exit status 1.
SystemStatus == {-1, 0, 256}

net_available_failopen(status) == status <= 0

net_available(status) == status = 0

\* test -e /usr/sbin/ntpd selects ntpq -p, otherwise timedatectl status
clock_synced(ntpd, ntpq, timedatectl) ==
    IF ntpd = 0 THEN ntpq = 0 ELSE timedatectl = 0

-----------------------------------------------------------------------------
(* Check pipeline *)

check_for_updates_unguarded(net, r) == [r EXCEPT !.refresh_cache = @ + 1]

\* check_for_updates: the runs in flight after the call, given the probe
check_for_updates(net, r) ==
    IF ~ net THEN r ELSE [r EXCEPT !.refresh_cache = @ + 1]

update_icon_nohide(n, hide) == n # 0

\* update_icon: whether the plugin widget is shown and sensitive afterwards
update_icon(n, hide) == n # 0 /\ ~ hide

refresh_cache_done_runs_noreturn(error, r) ==
    [r EXCEPT !.refresh_cache = @ - 1, !.get_updates = @ + 1]

\* refresh_cache_done: after an error nothing, otherwise get_updates_async
refresh_cache_done_runs(error, r) ==
    IF error
    THEN [r EXCEPT !.refresh_cache = @ - 1]
    ELSE [r EXCEPT !.refresh_cache = @ - 1, !.get_updates = @ + 1]

refresh_cache_done(error) ==
    /\ runs.refresh_cache > 0
    /\ runs' = refresh_cache_done_runs(error, runs)
    /\ last' = [op |-> "refresh_cache_done", out |-> IF error THEN "error" ELSE "ok"]
    /\ UNCHANGED <<n_updates, ids, interval, timer, settings, icon, menu,
                   update_dlg, sources, nextId, notifications, spawned, ticks, up, installerVars>>

published_n_updates_plus(f) == Len(f) + 1

\* the plugin state a successful get-updates completion publishes
published_n_updates(f) == Len(f)
published_ids_nonnull(f) == Strv(f)
published_ids(f) == IF Len(f) > 0 THEN Strv(f) ELSE NULL
published_notifications(f, n) == IF Len(f) > 0 THEN n + 1 ELSE n

\* check_updates_done: error is the GError of pk_task_generic_finish; code
\* says whether the results carry an error code, which the function never
\* asks for (no pk_results_get_error_code).
check_updates_done(error, code, results, is_pi) ==
    /\ runs.get_updates > 0
    /\ runs' = [runs EXCEPT !.get_updates = @ - 1]
    /\ IF error
       THEN /\ UNCHANGED <<n_updates, ids, icon, notifications>>
            /\ last' = [op |-> "check_updates_done", out |-> "error"]
       ELSE LET f == fsack(results, is_pi) IN
            /\ n_updates' = published_n_updates(f)
            /\ ids' = published_ids(f)
            /\ notifications' = published_notifications(f, notifications)
            /\ icon' = update_icon(n_updates', FALSE)
            /\ last' = [op |-> "check_updates_done", out |-> "published",
                        results |-> results, is_pi |-> is_pi]
    /\ UNCHANGED <<interval, timer, settings, menu, update_dlg, sources,
                   nextId, spawned, ticks, up, installerVars>>

-----------------------------------------------------------------------------
(* Timer handlers *)

wizard_running_never(status) == FALSE

\* !system ("ps ax | grep -v grep | grep -q piwiz")
wizard_running(status) == status = 0

init_check(piwiz, net1, net2) ==
    \E s \in Ready("init_check") :
        /\ CanStart
        /\ icon' = update_icon(n_updates, TRUE)
        /\ IF wizard_running(piwiz)
           THEN /\ runs' = runs
                /\ sources' = sources \ {s}
                /\ nextId' = nextId
                /\ last' = [op |-> "init_check", out |-> "piwiz"]
           ELSE IF net_available(net1)
           THEN /\ runs' = check_for_updates(net_available(net2), runs)
                /\ sources' = sources \ {s}
                /\ nextId' = nextId
                /\ last' = [op |-> "init_check",
                            out |-> IF net_available(net2) THEN "net" ELSE "net_lost"]
           ELSE /\ runs' = runs
                /\ sources' = (sources \ {s}) \cup {Source(nextId, "net_check", PollSecs)}
                /\ nextId' = nextId + 1
                /\ last' = [op |-> "init_check", out |-> "no_net"]
        /\ UNCHANGED <<n_updates, ids, interval, timer, settings, menu,
                       update_dlg, notifications, spawned, ticks, up, installerVars>>

net_check(net1, net2) ==
    \E s \in Ready("net_check") :
        /\ CanStart
        /\ IF net_available(net1)
           THEN /\ runs' = check_for_updates(net_available(net2), runs)
                /\ sources' = sources \ {s}
                /\ last' = [op |-> "net_check",
                            out |-> IF net_available(net2) THEN "net" ELSE "net_lost"]
           ELSE /\ runs' = runs
                /\ sources' = (sources \ {s}) \cup {Rearm(s)}
                /\ last' = [op |-> "net_check", out |-> "no_net"]
        /\ UNCHANGED <<n_updates, ids, interval, timer, settings, icon, menu,
                       update_dlg, nextId, notifications, spawned, ticks, up, installerVars>>

periodic_check(net) ==
    \E s \in Ready("periodic_check") :
        /\ CanStart
        /\ runs' = check_for_updates(net_available(net), runs)
        /\ sources' = (sources \ {s}) \cup {Rearm(s)}
        /\ last' = [op |-> "periodic_check",
                    out |-> IF net_available(net) THEN "net" ELSE "no_net"]
        /\ UNCHANGED <<n_updates, ids, interval, timer, settings, icon, menu,
                       update_dlg, nextId, notifications, spawned, ticks, up, installerVars>>

\* Time passes: by PartialStep, or up to the next deadline of an armed source.
Due(srcs) == { d \in { s.remaining : s \in srcs } : \A s \in srcs : d <= s.remaining }

TickSteps == { d \in {PartialStep} \cup Due(sources) : \A n \in Due(sources) : d <= n }

Tick(d) ==
    /\ ticks < MaxTicks
    /\ sources # {}
    /\ d > 0
    /\ sources' = { [s EXCEPT !.remaining = @ - d] : s \in sources }
    /\ ticks' = ticks + 1
    /\ UNCHANGED <<n_updates, ids, interval, timer, settings, icon, menu,
                   update_dlg, nextId, runs, notifications, spawned, last, up, installerVars>>

-----------------------------------------------------------------------------
(* Plugin functions *)

CHECK == <<"c", "h", "e", "c", "k">>

\* The control messages the panel may deliver.
ControlMsgs ==
    { CHECK,
      <<"c", "h", "e", "c", "k", "n", "o", "w">>,
      <<"c", "h", "e", "c">>,
      <<"s", "t", "o", "p">> }

Strncmp0_whole(a, b, n) == a = b

\* strncmp (a, b, n) == 0 on NUL-terminated strings
Strncmp0(a, b, n) ==
    \A i \in 1 .. n :
        /\ (i <= Len(a)) = (i <= Len(b))
        /\ (i <= Len(a) /\ i <= Len(b)) => a[i] = b[i]

updater_control_msg(cmd, net) ==
    /\ CanStart
    /\ IF Strncmp0(cmd, CHECK, 5)
       THEN /\ icon' = update_icon(n_updates, TRUE)
            /\ runs' = check_for_updates(net_available(net), runs)
            /\ last' = [op |-> "updater_control_msg",
                        out |-> IF net_available(net) THEN "net" ELSE "no_net",
                        ret |-> TRUE]
       ELSE /\ UNCHANGED <<icon, runs>>
            /\ last' = [op |-> "updater_control_msg", out |-> "ignored",
                        ret |-> FALSE]
    /\ UNCHANGED <<n_updates, ids, interval, timer, settings, menu, update_dlg,
                   sources, nextId, notifications, spawned, ticks, up, installerVars>>

remove_timer_leak(srcs, t) == srcs

\* if (up->timer) g_source_remove (up->timer)
remove_timer(srcs, t) ==
    IF t # 0 THEN { s \in srcs : s.id # t } ELSE srcs

arm_timer_unconditional(srcs, hours, id) ==
    [sources |-> srcs \cup {Source(id, "periodic_check", TimerSeconds(hours))},
     timer |-> id, nextId |-> id + 1]

\* the sources and up->timer once the periodic timer is set for `hours`
arm_timer(srcs, hours, id) ==
    IF hours # 0
    THEN [sources |-> srcs \cup {Source(id, "periodic_check", TimerSeconds(hours))},
          timer |-> id, nextId |-> id + 1]
    ELSE [sources |-> srcs, timer |-> 0, nextId |-> id]

\* The configuration dialog stores the value entered in up->interval and
\* calls updater_apply_configuration.
updater_apply_configuration(value) ==
    /\ nextId <= MaxSourceId
    /\ interval' = value
    /\ settings' = [set |-> TRUE, val |-> value]
    /\ LET armed == arm_timer(remove_timer(sources, timer), value, nextId) IN
        /\ sources' = armed.sources
        /\ timer' = armed.timer
        /\ nextId' = armed.nextId
    /\ last' = [op |-> "updater_apply_configuration",
                out |-> IF timer # 0
                        THEN (IF value # 0 THEN "rearmed" ELSE "cancelled")
                        ELSE (IF value # 0 THEN "armed" ELSE "off")]
    /\ UNCHANGED <<n_updates, ids, icon, menu, update_dlg, runs,
                   notifications, spawned, ticks, up, installerVars>>

\* updater_destructor: g_free (up) and nothing else; the GLib sources and the
\* PackageKit operations that hold the pointer stay as they are.
updater_destructor ==
    /\ up = "live"
    /\ up' = "freed"
    /\ last' = [op |-> "updater_destructor", out |-> "freed"]
    /\ UNCHANGED <<n_updates, ids, interval, timer, settings, icon, menu,
                   update_dlg, sources, nextId, runs, notifications, spawned,
                   ticks, installerVars>>

\* init_check (update_icon) and check_updates_done dereference up.  Once up is
\* freed that is undefined: the handler runs on the old contents as coded,
\* or the panel process dies here with all its sources and callbacks.
crash ==
    /\ up = "freed"
    /\ Ready("init_check") # {} \/ runs.get_updates > 0
    /\ up' = "crashed"
    /\ sources' = {}
    /\ runs' = [refresh_cache |-> 0, get_updates |-> 0]
    /\ last' = [op |-> "crash", out |-> "crashed"]
    /\ UNCHANGED <<n_updates, ids, interval, timer, settings, icon, menu,
                   update_dlg, nextId, notifications, spawned, ticks,
                   installerVars>>

-----------------------------------------------------------------------------
(* Menu, update-list dialog and installer launch *)

updater_button_press_event(button) ==
    /\ icon
    /\ button = 1
    /\ menu' = TRUE
    /\ last' = [op |-> "updater_button_press_event", out |-> "menu"]
    /\ UNCHANGED <<n_updates, ids, interval, timer, settings, icon, update_dlg,
                   sources, nextId, runs, notifications, spawned, ticks, up, installerVars>>

\* launch_installer: one g_spawn_async of sudo lxplug-updater-install
launch_installer(n) == n + 1

launch_installer_runs_recheck(r) == [r EXCEPT !.refresh_cache = @ + 1]

\* launch_installer: the check runs in flight after it.  It calls
\* g_spawn_async without a child watch and starts no check.
launch_installer_runs(r) == r

install_updates_spawned_noclock(net, clock, n) ==
    IF ~ net THEN n ELSE launch_installer(n)

install_updates_spawned(net, clock, n) ==
    IF ~ net THEN n
    ELSE IF ~ clock THEN n
    ELSE launch_installer(n)

MSG_NO_NET == "No network connection - cannot install updates."
MSG_NO_CLOCK == "Clock not synchronised - cannot install updates. Try again in a few minutes."
NoMessage == ""

\* the text install_updates passes to message (msg, -3), if any
install_updates_message(net, clock) ==
    IF ~ net THEN MSG_NO_NET
    ELSE IF ~ clock THEN MSG_NO_CLOCK
    ELSE NoMessage

\* handle_close_and_install calls message () on no path
handle_close_and_install_message(net, clock) == NoMessage

GateOutcome(net, clock) ==
    IF ~ net THEN "no_net" ELSE IF ~ clock THEN "no_clock" ELSE "launched"

install_updates(net, ntpd, ntpq, timedatectl) ==
    /\ menu
    /\ spawned < MaxInstalls
    /\ menu' = FALSE
    /\ spawned' = install_updates_spawned(net_available(net),
                      clock_synced(ntpd, ntpq, timedatectl), spawned)
    /\ runs' = IF spawned' # spawned THEN launch_installer_runs(runs) ELSE runs
    /\ last' = [op |-> "install_updates",
                out |-> GateOutcome(net_available(net),
                                    clock_synced(ntpd, ntpq, timedatectl)),
                msg |-> install_updates_message(net_available(net),
                                    clock_synced(ntpd, ntpq, timedatectl))]
    /\ UNCHANGED <<n_updates, ids, interval, timer, settings, icon, update_dlg,
                   sources, nextId, notifications, ticks, up, installerVars>>

show_updates ==
    /\ menu
    /\ menu' = FALSE
    /\ update_dlg' = TRUE
    /\ last' = [op |-> "show_updates", out |-> "dialog"]
    /\ UNCHANGED <<n_updates, ids, interval, timer, settings, icon, sources,
                   nextId, runs, notifications, spawned, ticks, up, installerVars>>

handle_close_update_dialog ==
    /\ update_dlg
    /\ update_dlg' = FALSE
    /\ last' = [op |-> "handle_close_update_dialog", out |-> "closed"]
    /\ UNCHANGED <<n_updates, ids, interval, timer, settings, icon, menu,
                   sources, nextId, runs, notifications, spawned, ticks, up, installerVars>>

handle_close_and_install_spawned(net, clock, n) ==
    IF net /\ clock THEN launch_installer(n) ELSE n

handle_close_and_install(net, ntpd, ntpq, timedatectl) ==
    /\ update_dlg
    /\ spawned < MaxInstalls
    /\ update_dlg' = FALSE
    /\ spawned' = handle_close_and_install_spawned(net_available(net),
                      clock_synced(ntpd, ntpq, timedatectl), spawned)
    /\ runs' = IF spawned' # spawned THEN launch_installer_runs(runs) ELSE runs
    /\ last' = [op |-> "handle_close_and_install",
                out |-> GateOutcome(net_available(net),
                                    clock_synced(ntpd, ntpq, timedatectl)),
                msg |-> handle_close_and_install_message(net_available(net),
                                    clock_synced(ntpd, ntpq, timedatectl))]
    /\ UNCHANGED <<n_updates, ids, interval, timer, settings, icon, menu,
                   sources, nextId, notifications, ticks, up, installerVars>>

-----------------------------------------------------------------------------
(* The installer process (src/installer.c) *)

\* The text of the label is the format string followed by its arguments.

MSG_UPDATING == <<"Updating package data - please wait...">>
MSG_COMPARING == <<"Comparing versions - please wait...">>
MSG_INSTALLING == <<"Installing updates - please wait...">>
MSG_UP_TO_DATE == <<"System is up to date">>
MSG_APPLICATION == <<"Updating application - please wait...">>
MSG_PACKAGE == <<"%s package - please wait...">>

\* g_strdup_printf (_("Error %s - %s"), desc, ...): the format and desc
ErrorMsg(desc) == <<"Error %s - %s", desc>>

\* The progress bar of a dialog just built from the ui file.
NewBar == [visible |-> TRUE, pulsing |-> FALSE, fraction |-> 0]

\* message: the dialog (label, OK button, progress bar) after the call.  The
\* fraction prog / 100.0 is kept in hundredths.
message(msg, prog, pb) ==
    [msg_msg |-> msg,
     msg_btn |-> (prog = -3),
     msg_pb  |-> [visible  |-> (prog > -2),
                  pulsing  |-> IF prog >= 0 THEN FALSE
                               ELSE IF prog = -1 THEN TRUE ELSE pb.pulsing,
                  fraction |-> IF prog >= 0 THEN prog ELSE pb.fraction]]

\* the bar message() works on: that of the dialog, or of a dialog it builds
BarOf(dlg, pb) == IF ~ dlg THEN NewBar ELSE pb

Show(msg, prog) ==
    LET m == message(msg, prog, BarOf(msg_dlg, msg_pb)) IN
    /\ msg_dlg' = TRUE
    /\ msg_msg' = m.msg_msg
    /\ msg_btn' = m.msg_btn
    /\ msg_pb' = m.msg_pb

\* What pk_task_generic_finish hands to error_handler: a clean result, a
\* transport error (GError), or results that carry an error code.
Outcomes == {"ok", "gerror", "pkerror"}

error_handler_ignore_code(outcome) == outcome # "gerror"

\* error_handler: TRUE when it returns the results, FALSE when it returns NULL
error_handler(outcome) == outcome = "ok"

\* the installer main loop is running
Running == quits = 0

OpsPending == pending.refresh_cache + pending.get_updates + pending.update_packages

\* refresh_cache: the idle callback main() adds
refresh_cache ==
    /\ Running
    /\ pending.idle > 0
    /\ Show(MSG_UPDATING, -1)
    /\ calls' = [calls EXCEPT !.refresh_cache = @ + 1]
    /\ pending' = [pending EXCEPT !.idle = @ - 1, !.refresh_cache = @ + 1]
    /\ ilast' = [op |-> "refresh_cache", out |-> "ok"]
    /\ UNCHANGED <<close_end_in, quits, events, pluginVars>>

compare_versions(outcome) ==
    /\ Running
    /\ pending.refresh_cache > 0
    /\ IF ~ error_handler(outcome)
       THEN /\ Show(ErrorMsg("updating cache"), -3)
            /\ calls' = calls
            /\ pending' = [pending EXCEPT !.refresh_cache = @ - 1]
       ELSE /\ Show(MSG_COMPARING, -1)
            /\ calls' = [calls EXCEPT !.get_updates = @ + 1]
            /\ pending' = [pending EXCEPT !.refresh_cache = @ - 1, !.get_updates = @ + 1]
    /\ ilast' = [op |-> "compare_versions", out |-> outcome]
    /\ UNCHANGED <<close_end_in, quits, events, pluginVars>>

installer_filter_fn_strcmp(package) == package.arch # AMD64

\* filter_fn of installer.c
installer_filter_fn(package) == ~ Strstr(package.arch, AMD64)

installer_fsack(results, is_pi) ==
    IF is_pi # 0 THEN SelectSeq(results, installer_filter_fn) ELSE results

start_install_always(f) == TRUE

close_end_timer_missing(armed) == armed

\* g_timeout_add_seconds (2, close_end, NULL)
close_end_timer(armed) == CloseSecs

\* start_install: whether pk_task_update_packages_async is called
start_install_installs(f) == Len(f) > 0

start_install(outcome, results, is_pi) ==
    /\ Running
    /\ pending.get_updates > 0
    /\ IF ~ error_handler(outcome)
       THEN /\ Show(ErrorMsg("comparing versions"), -3)
            /\ calls' = calls
            /\ pending' = [pending EXCEPT !.get_updates = @ - 1]
            /\ close_end_in' = close_end_in
            /\ ilast' = [op |-> "start_install", out |-> outcome]
       ELSE LET f == installer_fsack(results, is_pi) IN
            IF start_install_installs(f)
            THEN /\ Show(MSG_INSTALLING, -1)
                 /\ calls' = [calls EXCEPT !.update_packages = @ + 1]
                 /\ pending' = [pending EXCEPT !.get_updates = @ - 1,
                                               !.update_packages = @ + 1]
                 /\ close_end_in' = close_end_in
                 /\ ilast' = [op |-> "start_install", out |-> "install",
                              results |-> results, is_pi |-> is_pi, ids |-> f]
            ELSE /\ Show(MSG_UP_TO_DATE, -2)
                 /\ calls' = calls
                 /\ pending' = [pending EXCEPT !.get_updates = @ - 1]
                 /\ close_end_in' = close_end_timer(close_end_in)
                 /\ ilast' = [op |-> "start_install", out |-> "nothing",
                              results |-> results, is_pi |-> is_pi, ids |-> f]
    /\ UNCHANGED <<quits, events, pluginVars>>

install_done(outcome) ==
    /\ Running
    /\ pending.update_packages > 0
    /\ pending' = [pending EXCEPT !.update_packages = @ - 1]
    /\ IF ~ error_handler(outcome)
       THEN /\ Show(ErrorMsg("installing packages"), -3)
            /\ close_end_in' = close_end_in
       ELSE /\ Show(MSG_UP_TO_DATE, -2)
            /\ close_end_in' = close_end_timer(close_end_in)
    /\ ilast' = [op |-> "install_done", out |-> outcome]
    /\ UNCHANGED <<calls, quits, events, pluginVars>>

\* a second of the installer's main loop passes
installer_tick ==
    /\ Running
    /\ close_end_in > 0
    /\ close_end_in' = close_end_in - 1
    /\ UNCHANGED <<pending, calls, msg_dlg, msg_msg, msg_btn, msg_pb, quits,
                   events, ilast, pluginVars>>

close_end ==
    /\ Running
    /\ close_end_in = 0
    /\ close_end_in' = -1
    /\ msg_dlg' = FALSE
    /\ quits' = quits + 1
    /\ ilast' = [op |-> "close_end", out |-> "quit"]
    /\ UNCHANGED <<pending, calls, msg_msg, msg_btn, msg_pb, events, pluginVars>>

\* quit: the "clicked" handler of the OK button, which can be clicked while
\* it is visible
quit ==
    /\ Running
    /\ msg_dlg
    /\ msg_btn
    /\ msg_dlg' = FALSE
    /\ quits' = quits + 1
    /\ ilast' = [op |-> "quit", out |-> "quit"]
    /\ UNCHANGED <<pending, calls, msg_msg, msg_btn, msg_pb, close_end_in,
                   events, pluginVars>>

\* PkRoleEnum of the three operations the installer invokes, and those the
\* switch of progress() names without the installer invoking them
Roles == {"REFRESH_CACHE", "GET_UPDATES", "UPDATE_PACKAGES"}
SwitchRoles == {"REFRESH_CACHE", "RESOLVE", "UPDATE_PACKAGES", "GET_DETAILS"}

\* PkStatusEnum values a progress event may carry
Statuses == {"LOADING_CACHE", "DOWNLOAD", "INSTALL", "RUNNING"}

\* pk_progress_get_percentage: 0 .. 100, or -1 when the backend gives none
Percentages == {-1, 0, 50, 100}

RoleOfPending ==
    { r \in Roles :
        \/ r = "REFRESH_CACHE" /\ pending.refresh_cache > 0
        \/ r = "GET_UPDATES" /\ pending.get_updates > 0
        \/ r = "UPDATE_PACKAGES" /\ pending.update_packages > 0 }

progress_text(role) ==
    IF role = "REFRESH_CACHE" THEN MSG_UPDATING
    ELSE IF role = "RESOLVE" THEN <<"Finding package - please wait...">>
    ELSE IF role = "UPDATE_PACKAGES" THEN MSG_APPLICATION
    ELSE <<"Reading package details - please wait...">>

\* progress: the PkProgressCallback of the three operations
progress(role, status, percentage) ==
    /\ Running
    /\ events < MaxEvents
    /\ role \in RoleOfPending
    /\ events' = events + 1
    /\ IF ~ msg_dlg
       THEN UNCHANGED <<msg_dlg, msg_msg, msg_btn, msg_pb>>
       ELSE IF role \in SwitchRoles
       THEN IF status = "LOADING_CACHE"
            THEN Show(progress_text(role), percentage)
            ELSE /\ msg_pb' = [msg_pb EXCEPT !.pulsing = TRUE]
                 /\ UNCHANGED <<msg_dlg, msg_msg, msg_btn>>
       ELSE IF role = "INSTALL_PACKAGES"
       THEN IF status = "DOWNLOAD" \/ status = "INSTALL"
            THEN Show(MSG_PACKAGE, percentage)
            ELSE /\ msg_pb' = [msg_pb EXCEPT !.pulsing = TRUE]
                 /\ UNCHANGED <<msg_dlg, msg_msg, msg_btn>>
       ELSE UNCHANGED <<msg_dlg, msg_msg, msg_btn, msg_pb>>
    /\ ilast' = [op |-> "progress", role |-> role, status |-> status,
                 percentage |-> percentage, dlg |-> msg_dlg]
    /\ UNCHANGED <<pending, calls, close_end_in, quits, pluginVars>>

\* main: gtk_init, g_idle_add (refresh_cache, NULL), gtk_main
installer_main ==
    /\ pending = [idle |-> 1, refresh_cache |-> 0, get_updates |-> 0,
                  update_packages |-> 0]
    /\ calls = [refresh_cache |-> 0, get_updates |-> 0, update_packages |-> 0]
    /\ msg_dlg = FALSE
    /\ msg_msg = << >>
    /\ msg_btn = FALSE
    /\ msg_pb = NewBar
    /\ close_end_in = -1
    /\ quits = 0
    /\ events = 0
    /\ ilast = [op |-> "main", out |-> "started"]

-----------------------------------------------------------------------------
(* Construction *)

\* The "Interval" entry of the panel configuration: absent, or an integer.
NoSetting == [set |-> FALSE, val |-> 0]
Settings == {NoSetting} \cup { [set |-> TRUE, val |-> v] : v \in 0 .. MaxInterval }

\* if (!config_setting_lookup_int (...)) up->interval = 24
constructor_interval(cfg) == IF ~ cfg.set THEN DefaultInterval ELSE cfg.val

\* updater_constructor: g_idle_add (init_check) takes source id 1
updater_constructor(cfg) ==
        LET armed == arm_timer({Source(1, "init_check", 0)},
                               constructor_interval(cfg), 2) IN
        /\ settings = cfg
        /\ interval = constructor_interval(cfg)
        /\ sources = armed.sources
        /\ timer = armed.timer
        /\ nextId = armed.nextId
        /\ n_updates = 0
        /\ ids = NULL
        /\ icon = TRUE
        /\ menu = FALSE
        /\ update_dlg = FALSE
        /\ runs = [refresh_cache |-> 0, get_updates |-> 0]
        /\ notifications = 0
        /\ spawned = 0
        /\ ticks = 0
        /\ last = [op |-> "updater_constructor", out |-> "constructed"]
        /\ up = "live"
        /\ installer_main

Init == \E cfg \in Settings : updater_constructor(cfg)

\* The handlers GLib, PackageKit and the panel call: scheduler, check
\* pipeline, control message and configuration.  They neither read nor write
\* menu, update_dlg and spawned.  The results of a completed query carry no
\* error code here; SpecBackend adds those that do.
Next ==
    \/ \E piwiz, net1, net2 \in ProbeStatus : init_check(piwiz, net1, net2)
    \/ \E net1, net2 \in ProbeStatus : net_check(net1, net2)
    \/ \E net \in ProbeStatus : periodic_check(net)
    \/ \E d \in TickSteps : Tick(d)
    \/ \E error \in BOOLEAN : refresh_cache_done(error)
    \/ check_updates_done(TRUE, FALSE, << >>, 0)
    \/ \E results \in PackageLists, is_pi \in PlatformStatus :
           check_updates_done(FALSE, FALSE, results, is_pi)
    \/ \E cmd \in ControlMsgs, net \in ProbeStatus : updater_control_msg(cmd, net)
    \/ \E value \in 0 .. MaxInterval : updater_apply_configuration(value)

Spec == Init /\ [][Next]_vars

\* The handlers of the user interface (menu, update-list dialog, installer
\* launch), with the checks that show and hide the icon they hang from.  The
\* timers neither read nor write what these handlers use.
NextInstall ==
    \/ \E piwiz, net1, net2 \in ProbeStatus : init_check(piwiz, net1, net2)
    \/ \E error \in BOOLEAN : refresh_cache_done(error)
    \/ check_updates_done(TRUE, FALSE, << >>, 0)
    \/ \E results \in PackageLists, is_pi \in PlatformStatus :
           check_updates_done(FALSE, FALSE, results, is_pi)
    \/ \E cmd \in ControlMsgs, net \in ProbeStatus : updater_control_msg(cmd, net)
    \/ \E button \in 1 .. 3 : updater_button_press_event(button)
    \/ \E net, ntpd, ntpq, timedatectl \in ProbeStatus :
           install_updates(net, ntpd, ntpq, timedatectl)
    \/ show_updates
    \/ handle_close_update_dialog
    \/ \E net, ntpd, ntpq, timedatectl \in ProbeStatus :
           handle_close_and_install(net, ntpd, ntpq, timedatectl)

\* The applet constructed from a panel configuration without an "Interval"
\* entry; the handlers of NextInstall do not depend on the interval.
InitInstall == Init /\ settings = NoSetting

SpecInstall == InitInstall /\ [][NextInstall]_vars

\* The check pipeline with every completion the backend can deliver: a
\* transport error, clean results, and results that carry an error code.
NextBackend ==
    \/ \E piwiz, net1, net2 \in ProbeStatus : init_check(piwiz, net1, net2)
    \/ \E cmd \in ControlMsgs, net \in ProbeStatus : updater_control_msg(cmd, net)
    \/ \E error \in BOOLEAN : refresh_cache_done(error)
    \/ check_updates_done(TRUE, FALSE, << >>, 0)
    \/ \E code \in BOOLEAN, results \in PackageLists, is_pi \in PlatformStatus :
           check_updates_done(FALSE, code, results, is_pi)

SpecBackend == InitInstall /\ [][NextBackend]_vars

\* The handlers that evaluate the shell probes, with every value system() can
\* return, and the one check that shows the icon the menu hangs from.
NextProbe ==
    \/ \E piwiz, net1, net2 \in SystemStatus : init_check(piwiz, net1, net2)
    \/ refresh_cache_done(FALSE)
    \/ \E results \in PackageLists, is_pi \in PlatformStatus :
           check_updates_done(FALSE, FALSE, results, is_pi)
    \/ \E button \in 1 .. 3 : updater_button_press_event(button)
    \/ \E net, ntpd, ntpq, timedatectl \in SystemStatus :
           install_updates(net, ntpd, ntpq, timedatectl)
    \/ show_updates
    \/ handle_close_update_dialog
    \/ \E net, ntpd, ntpq, timedatectl \in SystemStatus :
           handle_close_and_install(net, ntpd, ntpq, timedatectl)

SpecProbe == InitInstall /\ [][NextProbe]_vars

\* The applet with the installer it launches: the one check that shows the
\* icon, the menu and the dialog, and the installer process, which runs once
\* an installer has been spawned (the first one spawned is followed).
LaunchResults == { s \in PackageLists : Len(s) <= 1 }

NextLaunch ==
    \/ \E piwiz, net1, net2 \in ProbeStatus : init_check(piwiz, net1, net2)
    \/ refresh_cache_done(FALSE)
    \/ \E results \in LaunchResults, is_pi \in PlatformStatus :
           check_updates_done(FALSE, FALSE, results, is_pi)
    \/ \E button \in 1 .. 3 : updater_button_press_event(button)
    \/ \E net, ntpd, ntpq, timedatectl \in ProbeStatus :
           install_updates(net, ntpd, ntpq, timedatectl)
    \/ show_updates
    \/ handle_close_update_dialog
    \/ \E net, ntpd, ntpq, timedatectl \in ProbeStatus :
           handle_close_and_install(net, ntpd, ntpq, timedatectl)
    \/ spawned > 0 /\ refresh_cache
    \/ \E outcome \in Outcomes : spawned > 0 /\ compare_versions(outcome)
    \/ \E outcome \in Outcomes \ {"ok"} :
           spawned > 0 /\ start_install(outcome, << >>, 0)
    \/ \E results \in LaunchResults, is_pi \in PlatformStatus :
           spawned > 0 /\ start_install("ok", results, is_pi)
    \/ \E outcome \in Outcomes : spawned > 0 /\ install_done(outcome)
    \/ spawned > 0 /\ installer_tick
    \/ spawned > 0 /\ close_end
    \/ spawned > 0 /\ quit

SpecLaunch == InitInstall /\ [][NextLaunch]_vars

\* The scheduler with the intervals an int can hold beyond those of Spec:
\* the first ones whose seconds no longer fit the guint of
\* g_timeout_add_seconds.
ConfigInts == (0 .. MaxInterval) \cup {1193047, 1193048}

InitInterval ==
    \E cfg \in {NoSetting} \cup { [set |-> TRUE, val |-> v] : v \in ConfigInts } :
        updater_constructor(cfg)

NextInterval ==
    \/ \E piwiz, net1, net2 \in ProbeStatus : init_check(piwiz, net1, net2)
    \/ \E net1, net2 \in ProbeStatus : net_check(net1, net2)
    \/ \E net \in ProbeStatus : periodic_check(net)
    \/ \E d \in TickSteps : Tick(d)
    \/ \E error \in BOOLEAN : refresh_cache_done(error)
    \/ check_updates_done(TRUE, FALSE, << >>, 0)
    \/ \E value \in ConfigInts : updater_apply_configuration(value)

SpecInterval == InitInterval /\ [][NextInterval]_vars

\* The applet torn down by the panel: the timers and the check pipeline, which
\* nothing stops, and the destructor.  The panel delivers no control message,
\* click or configuration to a plugin it has destroyed.
NextTeardown ==
    \/ \E piwiz, net1, net2 \in ProbeStatus : init_check(piwiz, net1, net2)
    \/ \E net1, net2 \in ProbeStatus : net_check(net1, net2)
    \/ \E net \in ProbeStatus : periodic_check(net)
    \/ \E d \in TickSteps : Tick(d)
    \/ \E error \in BOOLEAN : refresh_cache_done(error)
    \/ check_updates_done(TRUE, FALSE, << >>, 0)
    \/ \E results \in PackageLists, is_pi \in PlatformStatus :
           check_updates_done(FALSE, FALSE, results, is_pi)
    \/ updater_destructor
    \/ crash

SpecTeardown == Init /\ [][NextTeardown]_vars

\* The installer process, started by launch_installer: its idle callback,
\* the completions and progress events of the backend, its timer and its
\* OK button.
NextInstaller ==
    \/ refresh_cache
    \/ \E outcome \in Outcomes : compare_versions(outcome)
    \/ \E outcome \in Outcomes \ {"ok"} : start_install(outcome, << >>, 0)
    \/ \E results \in PackageLists, is_pi \in PlatformStatus :
           start_install("ok", results, is_pi)
    \/ \E outcome \in Outcomes : install_done(outcome)
    \/ \E status \in Statuses, percentage \in Percentages, role \in Roles :
           progress(role, status, percentage)
    \/ installer_tick
    \/ close_end
    \/ quit

SpecInstaller == InitInstall /\ [][NextInstaller]_vars

\* GLib runs an idle callback, delivers the completion of an asynchronous
\* operation and fires a timer that is due; the user may never click.
InstallerFairness ==
    /\ WF_vars(refresh_cache)
    /\ WF_vars(\E outcome \in Outcomes : compare_versions(outcome))
    /\ WF_vars(\E outcome \in Outcomes, results \in PackageLists,
                  is_pi \in PlatformStatus : start_install(outcome, results, is_pi))
    /\ WF_vars(\E outcome \in Outcomes : install_done(outcome))
    /\ WF_vars(installer_tick)
    /\ WF_vars(close_end)

SpecInstallerFair == SpecInstaller /\ InstallerFairness

-----------------------------------------------------------------------------
(* Properties *)

PeriodicSources(srcs) == { s \in srcs : s.fn = "periodic_check" }
PollSources(srcs) == { s \in srcs : s.fn = "net_check" }
IsCheckMsg(cmd) == Len(cmd) >= 5 /\ SubSeq(cmd, 1, 5) = CHECK

\* C1: at most one update-check run is in flight at any time.
C1_SingleFlight == RunCount <= 1

\* C2: an install request from the menu item or from the dialog's install
\* button spawns exactly one installer when the network and the clock probes
\* are both true and none otherwise, and nothing else spawns an installer.
C2_Request(net, ntpd, ntpq, timedatectl) ==
    \/ install_updates(net, ntpd, ntpq, timedatectl)
    \/ handle_close_and_install(net, ntpd, ntpq, timedatectl)

C2_GatedSpawn ==
    [][ /\ \A net, ntpd, ntpq, timedatectl \in ProbeStatus :
            ((menu' # menu \/ update_dlg' # update_dlg)
                /\ C2_Request(net, ntpd, ntpq, timedatectl)) =>
                /\ net # 0 => spawned' = spawned
                /\ (net = 0 /\ ntpd = 0 /\ ntpq # 0) => spawned' = spawned
                /\ (net = 0 /\ ntpd # 0 /\ timedatectl # 0) => spawned' = spawned
                /\ (net = 0 /\ ntpd = 0 /\ ntpq = 0) => spawned' = spawned + 1
                /\ (net = 0 /\ ntpd # 0 /\ timedatectl = 0) => spawned' = spawned + 1
        /\ spawned' # spawned =>
            \E net, ntpd, ntpq, timedatectl \in ProbeStatus :
                C2_Request(net, ntpd, ntpq, timedatectl)
      ]_vars

C2_Witness ==
    /\ last.op = "handle_close_and_install"
    /\ last.out = "launched"
    /\ spawned = 2

\* C3: a check trigger whose network probe inside check_for_updates is false
\* invokes no backend operation and leaves n_updates and ids as they were.
C3_TriggerWithoutNet ==
    \/ \E piwiz, net2 \in ProbeStatus : piwiz # 0 /\ net2 # 0 /\ init_check(piwiz, 0, net2)
    \/ \E net2 \in ProbeStatus : net2 # 0 /\ net_check(0, net2)
    \/ \E net \in ProbeStatus : net # 0 /\ periodic_check(net)
    \/ \E cmd \in ControlMsgs, net \in ProbeStatus :
           IsCheckMsg(cmd) /\ net # 0 /\ updater_control_msg(cmd, net)

C3_NoNetNoBackend ==
    [][ C3_TriggerWithoutNet =>
            /\ runs' = runs
            /\ n_updates' = n_updates
            /\ ids' = ids
      ]_vars

C3_Witness ==
    /\ last.op = "periodic_check"
    /\ last.out = "no_net"
    /\ n_updates > 0

\* C4: a backend error in the cache refresh or in the get-updates query ends
\* the run: no later step of the run is invoked, no notification is emitted
\* and n_updates, ids and the icon keep their values.
C4_ErrorStep ==
    \/ refresh_cache_done(TRUE)
    \/ check_updates_done(TRUE, FALSE, << >>, 0)

C4_ErrorEndsRun ==
    [][ /\ C4_ErrorStep =>
            /\ RunCount' = RunCount - 1
            /\ runs'.get_updates <= runs.get_updates
            /\ notifications' = notifications
            /\ n_updates' = n_updates
            /\ ids' = ids
            /\ icon' = icon
        /\ refresh_cache_done(FALSE) =>
            /\ notifications' = notifications
            /\ n_updates' = n_updates
            /\ ids' = ids
            /\ icon' = icon
      ]_vars

C4_Witness ==
    /\ last.op = "check_updates_done"
    /\ last.out = "error"
    /\ n_updates > 0
    /\ icon

\* C5: a notification is emitted exactly at the transitions of the stored
\* state from n_updates = 0 to n_updates > 0, and at no other step.
C5_NotifyOnTransitionOnly ==
    [][ notifications' =
            IF n_updates = 0 /\ n_updates' > 0
            THEN notifications + 1
            ELSE notifications
      ]_vars

Published == last.op = "check_updates_done" /\ last.out = "published"

\* C6: a check that completes successfully with no package left after
\* filtering (an empty list, or off the Pi platform a list of packages that
\* all have "amd64" in their architecture) leaves n_updates = 0, ids = NULL
\* and the icon hidden.
C6_EmptyCheckIsUpToDate ==
    ( /\ Published
      /\ \A i \in 1 .. Len(last.results) :
            last.is_pi # 0 /\ Strstr(last.results[i].arch, AMD64) ) =>
        /\ n_updates = 0
        /\ ids = NULL
        /\ ~ icon

C6_Witness ==
    /\ Published
    /\ Len(last.results) = 2
    /\ n_updates = 0
    /\ notifications > 0

\* C7: the published update set is the backend's whole list on the Pi
\* platform (probe status 0) and otherwise exactly the packages whose
\* architecture does not contain "amd64", in the backend's order; n_updates
\* is the size of the published set.
ContainsAmd64(arch) ==
    \E i, j \in 1 .. Len(arch) : SubSeq(arch, i, j) = AMD64

\* f holds exactly the elements of s at the positions in keep, in order
IsSelection(f, s, keep) ==
    \E at \in [1 .. Len(f) -> 1 .. Len(s)] :
        /\ \A i, j \in 1 .. Len(f) : i < j => at[i] < at[j]
        /\ { at[i] : i \in 1 .. Len(f) } = keep
        /\ \A i \in 1 .. Len(f) : f[i] = s[at[i]]

C7_PublishedIsFiltered ==
    Published =>
        /\ n_updates = Len(ids.v)
        /\ last.is_pi = 0 => ids.v = last.results
        /\ last.is_pi # 0 =>
             IsSelection(ids.v, last.results,
                 { i \in 1 .. Len(last.results) :
                     ~ ContainsAmd64(last.results[i].arch) })

C7_Witness ==
    /\ Published
    /\ last.is_pi = 127
    /\ Len(last.results) = 2
    /\ n_updates = 1

\* C8: a configuration update applied while a periodic timer is armed removes
\* that timer and, for a nonzero interval, arms one new timer due
\* interval hours later; interval 0 leaves no periodic timer, and a periodic
\* check fires only from the timer up->timer names.  The intervals are those
\* of the configuration dialog, 0 .. MaxInterval hours.
C8_Reconfigure ==
    [][ /\ \A value \in 0 .. MaxInterval :
            (updater_apply_configuration(value) /\ timer # 0) =>
                /\ \A s \in sources' : s.id # timer
                /\ value # 0 =>
                     /\ timer' # 0
                     /\ \A s \in PeriodicSources(sources') :
                            /\ s.id = timer'
                            /\ s.remaining = value * SECS_PER_HOUR
                            /\ s.period = value * SECS_PER_HOUR
                     /\ \E s \in PeriodicSources(sources') : s.id = timer'
                /\ value = 0 =>
                     /\ timer' = 0
                     /\ PeriodicSources(sources') = {}
        /\ (\E net \in ProbeStatus : periodic_check(net)) =>
                /\ interval # 0
                /\ \A s \in Ready("periodic_check") : s.id = timer
      ]_vars

C8_Witness ==
    /\ last.op = "updater_apply_configuration"
    /\ last.out = "rearmed"
    /\ ticks > 0
    /\ \E s \in PeriodicSources(sources) : s.remaining = s.period

\* C9: a periodic timer is armed exactly when the interval is nonzero, at
\* most one periodic timer is armed, and the interval is 24 while the
\* configuration holds no value.
C9_TimerMatchesInterval ==
    /\ (timer # 0) <=> (interval # 0)
    /\ Cardinality(PeriodicSources(sources)) <= 1
    /\ \A s \in PeriodicSources(sources) : s.id = timer
    /\ timer # 0 => \E s \in PeriodicSources(sources) : s.id = timer
    /\ ~ settings.set => interval = 24

C9_Witness ==
    /\ last.op = "periodic_check"
    /\ timer > 2
    /\ RunCount > 0

\* C10: the 60 s network poll stops only at a poll that starts a check run
\* (invokes the backend cache refresh).
C10_PollStopsWithRun ==
    [][ (PollSources(sources) # {} /\ PollSources(sources') = {}) =>
            runs'.refresh_cache = runs.refresh_cache + 1
      ]_vars

\* C11: a control message that begins with "check" is handled and starts a
\* check at once when the network is up, whether the periodic timer is armed
\* or not, and leaves the timer, its sources with their remaining time, the
\* interval and the configuration as they were; any other message is not
\* handled and changes nothing.
C11_ControlCheck ==
    [][ \A cmd \in ControlMsgs, net \in ProbeStatus :
            (last'.op = "updater_control_msg" /\ updater_control_msg(cmd, net)) =>
                /\ timer' = timer
                /\ interval' = interval
                /\ sources' = sources
                /\ settings' = settings
                /\ IsCheckMsg(cmd) =>
                     /\ last'.ret
                     /\ net = 0 => runs'.refresh_cache = runs.refresh_cache + 1
                /\ ~ IsCheckMsg(cmd) =>
                     /\ ~ last'.ret
                     /\ runs' = runs
                     /\ UNCHANGED <<n_updates, ids, icon, menu, update_dlg, nextId,
                                    notifications, spawned, up>>
      ]_vars

C11_Witness ==
    /\ last.op = "updater_control_msg"
    /\ last.out = "net"
    /\ runs.refresh_cache > 0
    /\ \E s \in PeriodicSources(sources) : s.id = timer /\ s.remaining < s.period

\* C12: an install request whose gate fails shows the user a message that
\* names the failed precondition: the no-network message when the network
\* probe is false, the clock message when only the clock probe is false.
C12_GateFailureShown ==
    last.op \in {"install_updates", "handle_close_and_install"} =>
        /\ last.out = "no_net" => last.msg = MSG_NO_NET
        /\ last.out = "no_clock" => last.msg = MSG_NO_CLOCK

\* C13: the installer invokes refresh cache first, get updates only from the
\* error-free completion of the refresh, update packages only from the
\* error-free completion of get updates with a non-empty filtered set, each
\* at most once, and never update packages when the filtered set is empty.
C13_NothingLeft(results, is_pi) ==
    \A i \in 1 .. Len(results) : is_pi # 0 /\ ContainsAmd64(results[i].arch)

C13_InstallerOrder ==
    [][ /\ calls'.refresh_cache # calls.refresh_cache =>
            /\ refresh_cache
            /\ calls = [refresh_cache |-> 0, get_updates |-> 0, update_packages |-> 0]
        /\ calls'.get_updates # calls.get_updates =>
            /\ compare_versions("ok")
            /\ calls = [refresh_cache |-> 1, get_updates |-> 0, update_packages |-> 0]
            /\ pending.refresh_cache = 1
        /\ calls'.update_packages # calls.update_packages =>
            /\ ilast'.op = "start_install"
            /\ start_install("ok", ilast'.results, ilast'.is_pi)
            /\ ~ C13_NothingLeft(ilast'.results, ilast'.is_pi)
            /\ calls = [refresh_cache |-> 1, get_updates |-> 1, update_packages |-> 0]
            /\ pending.get_updates = 1
        /\ \A op \in DOMAIN calls : calls'[op] <= 1
        /\ \A is_pi \in PlatformStatus :
            ( /\ pending.get_updates > 0
              /\ pending'.get_updates < pending.get_updates
              /\ ilast'.op = "start_install"
              /\ ilast'.out \in {"install", "nothing"}
              /\ ilast'.is_pi = is_pi
              /\ C13_NothingLeft(ilast'.results, is_pi) ) =>
                calls' = calls
      ]_vars

C13_Witness ==
    /\ ilast.op = "install_done"
    /\ ilast.out = "ok"
    /\ calls = [refresh_cache |-> 1, get_updates |-> 1, update_packages |-> 1]

\* C14: an error of a phase of the installer, a transport error or an error
\* code in the results, is shown with its description and the OK button, no
\* backend operation is invoked at or after it, no close timer is armed, and
\* the text shown stays the error: "System is up to date" never replaces it.
ErrorTexts ==
    { ErrorMsg(desc) : desc \in {"updating cache", "comparing versions",
                                 "installing packages"} }

C14_ErrorShown(desc) ==
    /\ msg_dlg'
    /\ msg_msg' = ErrorMsg(desc)
    /\ msg_btn'
    /\ ~ msg_pb'.visible
    /\ calls' = calls
    /\ OpsPending' = 0
    /\ close_end_in' = -1

C14_ErrorEndsSession ==
    [][ /\ \A outcome \in {"gerror", "pkerror"} :
            /\ compare_versions(outcome) => C14_ErrorShown("updating cache")
            /\ start_install(outcome, << >>, 0) => C14_ErrorShown("comparing versions")
            /\ install_done(outcome) => C14_ErrorShown("installing packages")
        /\ msg_msg \in ErrorTexts =>
            /\ msg_msg' = msg_msg
            /\ calls' = calls
            /\ pending' = pending
            /\ close_end_in' = close_end_in
      ]_vars

C14_Witness ==
    /\ ilast.op = "install_done"
    /\ ilast.out = "pkerror"
    /\ msg_msg = ErrorMsg("installing packages")
    /\ msg_btn
    /\ events > 0

\* C15: between handlers ids is non-NULL exactly when n_updates > 0 and then
\* holds n_updates ids; n_updates and ids change only together, in a
\* successful check_updates_done, to the filtered set of that one check.
C15_Whole ==
    /\ ids.null <=> n_updates = 0
    /\ Len(ids.v) = n_updates

C15_UpdateSetWhole ==
    /\ [] C15_Whole
    /\ [][ (n_updates' # n_updates \/ ids' # ids) =>
            /\ last'.op = "check_updates_done"
            /\ last'.out = "published"
            /\ runs'.get_updates = runs.get_updates - 1
            /\ n_updates' = Len(ids'.v)
            /\ ids'.v = fsack(last'.results, last'.is_pi)
         ]_vars

C15_Witness ==
    /\ Published
    /\ n_updates = 2
    /\ RunCount > 0

\* C16: once the destructor has run, no callback of an abandoned run, timer
\* or poll writes n_updates or ids or notifies: no update set is published.
C16_AbandonedAfterTeardown ==
    [][ up # "live" => UNCHANGED <<n_updates, ids, notifications>> ]_vars

\* C17: the package ids the installer passes to update packages are those the
\* checker publishes for the same backend list and platform probe, and the
\* installer installs nothing exactly when the checker reports up to date.
C17_SameFilter ==
    (ilast.op = "start_install" /\ ilast.out \in {"install", "nothing"}) =>
        LET f == fsack(ilast.results, ilast.is_pi) IN
            /\ ilast.ids = published_ids(f).v
            /\ (ilast.out = "nothing") <=> (published_n_updates(f) = 0)
            /\ (ilast.out = "nothing") <=> (published_ids(f) = NULL)
            /\ (ilast.out = "install") <=> (calls.update_packages = 1)

C17_Witness ==
    /\ ilast.op = "start_install"
    /\ ilast.out = "install"
    /\ ilast.is_pi = 1
    /\ Len(ilast.results) = 2
    /\ Len(ilast.ids) = 1

\* C18: a get-updates completion of a check whose results carry an error
\* code leaves n_updates, ids and the icon as they were and notifies nothing.
C18_ErrorCodeKeepsState ==
    [][ \A results \in PackageLists, is_pi \in PlatformStatus :
            check_updates_done(FALSE, TRUE, results, is_pi) =>
                UNCHANGED <<n_updates, ids, icon, notifications>>
      ]_vars

\* C19: a progress event delivered while the dialog is open sets the bar to
\* the fraction p/100 when it carries a percentage p in 0 .. 100 and pulses
\* the bar when it carries none, whatever its role and status.
C19_ProgressShown ==
    (ilast.op = "progress" /\ ilast.dlg) =>
        IF ilast.percentage \in 0 .. 100
        THEN msg_pb.fraction = ilast.percentage /\ ~ msg_pb.pulsing
        ELSE msg_pb.pulsing

\* C20: the installer reaches a final status, error or "System is up to
\* date"; an error is shown only on an error outcome; from "System is up to
\* date" it quits its main loop, by the close timer armed for two seconds; it
\* quits only with a final status shown, and with an error shown only by the
\* OK button.
Final == msg_msg = MSG_UP_TO_DATE \/ msg_msg \in ErrorTexts

C20_InstallerEnds ==
    /\ <> Final
    /\ (msg_msg = MSG_UP_TO_DATE) ~> (quits = 1)
    /\ [] (quits > 0 => Final)
    /\ [] (quits <= 1)
    /\ [][ /\ (msg_msg' \in ErrorTexts /\ msg_msg \notin ErrorTexts) =>
                ilast'.out \in {"gerror", "pkerror"}
           /\ (msg_msg' = MSG_UP_TO_DATE /\ msg_msg # MSG_UP_TO_DATE) =>
                close_end_in' = 2
           /\ (quits' # quits /\ msg_msg = MSG_UP_TO_DATE) =>
                close_end /\ close_end_in = 0
           /\ (quits' # quits /\ msg_msg \in ErrorTexts) => quit
         ]_vars

C20_Witness ==
    /\ quits = 1
    /\ ilast.op = "close_end"
    /\ msg_msg = MSG_UP_TO_DATE
    /\ calls.update_packages = 1

\* C21: the probes are fail-closed and change nothing: an install request
\* launches only when the network command returned 0 and the selected clock
\* command (ntpq when test -e /usr/sbin/ntpd returned 0, timedatectl
\* otherwise) returned 0; a startup check starts a run only when both
\* network probes it made returned 0; any other return value
\* of system() counts as false; and the step that probes leaves n_updates,
\* ids, the icon, the interval and the timers as its handler sets them
\* without the probe.
C21_ProbesFailClosed ==
    [][ /\ \A net, ntpd, ntpq, timedatectl \in SystemStatus :
            ( \/ /\ last'.op = "install_updates"
                 /\ install_updates(net, ntpd, ntpq, timedatectl)
              \/ /\ last'.op = "handle_close_and_install"
                 /\ handle_close_and_install(net, ntpd, ntpq, timedatectl) ) =>
                /\ net # 0 => (last'.out = "no_net" /\ spawned' = spawned)
                /\ (net = 0 /\ ntpd = 0 /\ ntpq # 0) =>
                        (last'.out = "no_clock" /\ spawned' = spawned)
                /\ (net = 0 /\ ntpd # 0 /\ timedatectl # 0) =>
                        (last'.out = "no_clock" /\ spawned' = spawned)
                /\ spawned' # spawned =>
                        /\ net = 0
                        /\ IF ntpd = 0 THEN ntpq = 0 ELSE timedatectl = 0
                /\ UNCHANGED <<n_updates, ids, icon, interval, timer, sources,
                               runs, notifications>>
        /\ \A piwiz, net1, net2 \in SystemStatus :
            (last'.op = "init_check" /\ init_check(piwiz, net1, net2)) =>
                /\ runs' # runs => (net1 = 0 /\ net2 = 0)
                /\ (piwiz # 0 /\ net1 # 0) => PollSources(sources') # {}
                /\ UNCHANGED <<n_updates, ids, interval, timer>>
                /\ PeriodicSources(sources') = PeriodicSources(sources)
      ]_vars

C21_Witness ==
    /\ last.op = "handle_close_and_install"
    /\ last.out = "no_clock"
    /\ spawned = 1
    /\ n_updates > 0
    /\ icon

\* C22: the steps of a check run come in the order guard, cache refresh, get
\* updates, publish: a refresh starts only in a trigger whose network guard
\* passed; get updates starts only in the error-free completion of a refresh,
\* which that completion uses up; n_updates, ids and the notification change
\* only in the error-free completion of a get updates, which that completion
\* uses up, so a run publishes once at most; the icon changes only there or
\* in the trigger, before the run.
C22_Triggers == {"init_check", "net_check", "periodic_check", "updater_control_msg"}

C22_RunOrder ==
    [][ /\ runs'.refresh_cache > runs.refresh_cache =>
            /\ last'.op \in C22_Triggers
            /\ last'.out = "net"
            /\ runs'.refresh_cache = runs.refresh_cache + 1
            /\ runs'.get_updates = runs.get_updates
            /\ UNCHANGED <<n_updates, ids, notifications>>
        /\ runs'.get_updates > runs.get_updates =>
            /\ refresh_cache_done(FALSE)
            /\ last'.out = "ok"
            /\ runs.refresh_cache > 0
            /\ runs'.refresh_cache = runs.refresh_cache - 1
            /\ runs'.get_updates = runs.get_updates + 1
            /\ UNCHANGED <<n_updates, ids, icon, notifications>>
        /\ (n_updates' # n_updates \/ ids' # ids \/ notifications' # notifications) =>
            /\ last'.op = "check_updates_done"
            /\ last'.out = "published"
            /\ runs.get_updates > 0
            /\ runs'.get_updates = runs.get_updates - 1
            /\ runs'.refresh_cache = runs.refresh_cache
        /\ icon' # icon =>
            \/ /\ last'.op = "check_updates_done"
               /\ last'.out = "published"
               /\ runs'.get_updates = runs.get_updates - 1
            \/ /\ last'.op \in {"init_check", "updater_control_msg"}
               /\ runs'.get_updates = runs.get_updates
               /\ ~ icon'
      ]_vars

C22_Witness ==
    /\ Published
    /\ last.is_pi = 0
    /\ n_updates = 2
    /\ RunCount = 0
    /\ ticks > 0

\* C23: an install request, whatever its gate decides, and every step of the
\* installer it spawns, to its quit after success or after an error, leave
\* n_updates, ids, the icon, the interval, the periodic timer and the GLib
\* sources as they were and start no check; n_updates and ids change only in
\* a successful check_updates_done.
C23_FireAndForget ==
    [][ /\ ( \/ menu' # menu
             \/ update_dlg' # update_dlg
             \/ spawned' # spawned
             \/ installerVars' # installerVars ) =>
                UNCHANGED <<n_updates, ids, icon, interval, timer, sources,
                            runs, notifications>>
        /\ (n_updates' # n_updates \/ ids' # ids) =>
                /\ last'.op = "check_updates_done"
                /\ last'.out = "published"
      ]_vars

C23_Witness ==
    /\ spawned = 1
    /\ ilast.op = "quit"
    /\ n_updates = 1
    /\ icon
    /\ RunCount = 0

\* C24: while a periodic timer is armed its period in seconds is the
\* interval in hours times 3600.
C24_PeriodIsIntervalHours ==
    \A s \in PeriodicSources(sources) :
        /\ s.period % SECS_PER_HOUR = 0
        /\ s.period \div SECS_PER_HOUR = interval

\* C25: the startup check and every "check" control message hide the icon;
\* only a check that completes without error with n_updates > 0 shows it;
\* after every check that completes without error the icon is shown exactly
\* when n_updates > 0; so a control-triggered check that finds no network or
\* ends in a backend error leaves n_updates as it was and the icon hidden.
IdleSources(srcs) == { s \in srcs : s.fn = "init_check" }

C26_WizardSkipsCheck ==
    [][ /\ \A net1, net2 \in ProbeStatus :
            (last'.op = "init_check" /\ init_check(0, net1, net2)) =>
                /\ last'.out = "piwiz"
                /\ runs' = runs
                /\ PollSources(sources') = {}
                /\ IdleSources(sources') = {}
                /\ PeriodicSources(sources') = PeriodicSources(sources)
        /\ IdleSources(sources') \subseteq IdleSources(sources)
        /\ (PollSources(sources') # {} /\ PollSources(sources) = {}) =>
                /\ last'.op = "init_check"
                /\ last'.out = "no_net"
                /\ IdleSources(sources) # {}
        /\ runs'.refresh_cache > runs.refresh_cache =>
                last'.op \in C22_Triggers
        /\ ( /\ IdleSources(sources) = {}
             /\ PollSources(sources) = {}
             /\ runs'.refresh_cache > runs.refresh_cache ) =>
                \/ last'.op = "updater_control_msg"
                \/ /\ last'.op = "periodic_check"
                   /\ interval # 0
                   /\ timer # 0
      ]_vars

C26_Witness ==
    /\ last.op = "init_check"
    /\ last.out = "piwiz"
    /\ interval = 0
    /\ sources = {}
    /\ RunCount = 0

====
